---- MODULE Spec2Model ----
(***************************************************************************)
(* Model of git-account: the JSON registry of profiles, the SSH client     *)
(* config kept beside it, and the switch procedure that rewrites the       *)
(* repository's origin remote. The program modelled is the installed       *)
(* entry point, gitaccount.main:main (src/gitaccount/main.py); each action *)
(* is one invocation of the command line.                                  *)
(*                                                                         *)
(* Text (file contents, aliases, emails, URLs) is a sequence of            *)
(* one-character strings, so that strip/startswith/splitlines and the      *)
(* regular expressions are computed character by character.                *)
(***************************************************************************)
EXTENDS Integers, Sequences, FiniteSets, TLC

VARIABLES
    cfgExists,   \* ~/.git-account/config.json exists
    configs,     \* its content: the ordered mapping alias -> profile, as a sequence of entries
    sshExists,   \* ~/.ssh/config exists
    ssh,         \* its content, character by character
    origin,      \* remote.origin.url of the current repository (<<>>: no origin remote)
    localId,     \* user.name / user.email / user.signingkey of the repository (local scope)
    globalId,    \* the same, global scope
    op,          \* the last invocation: its command and its inputs
    raised,      \* the error the last invocation ended with ("none": it returned normally)
    printed,     \* the last line the last invocation printed on standard output
    exitCode,    \* the exit code of the last invocation
    aborted,     \* some invocation so far stopped between two of its writes
    pc,          \* where the running invocation stands ("idle": none is running)
    ops          \* number of invocations so far

vars == <<cfgExists, configs, sshExists, ssh, origin, localId, globalId,
          op, raised, printed, exitCode, aborted, pc, ops>>

-----------------------------------------------------------------------------
(* Bounds *)

MaxOps == 4
MaxEmailLen == 6
MaxUrlLen == 3
MaxSwitchOps == 2

-----------------------------------------------------------------------------
(* Text helpers: Python's str methods on character sequences *)

NL == "\n"
TAB == "\t"

IsSpace(c) == c \in {" ", TAB, NL}

RECURSIVE lstrip(_)
lstrip(s) == IF s # <<>> /\ IsSpace(Head(s)) THEN lstrip(Tail(s)) ELSE s

RECURSIVE rstrip(_)
rstrip(s) ==
    IF s # <<>> /\ IsSpace(s[Len(s)]) THEN rstrip(SubSeq(s, 1, Len(s) - 1)) ELSE s

strip(s) == rstrip(lstrip(s))

startswith(s, p) == Len(p) <= Len(s) /\ SubSeq(s, 1, Len(p)) = p

endswith(s, p) == Len(p) <= Len(s) /\ SubSeq(s, Len(s) - Len(p) + 1, Len(s)) = p

\* str.splitlines(True): the lines of s, each keeping its line ending
RECURSIVE splitlines(_)
splitlines(s) ==
    IF s = <<>> THEN <<>>
    ELSE IF \E i \in 1..Len(s) : s[i] = NL
         THEN LET i == CHOOSE k \in 1..Len(s) :
                            s[k] = NL /\ \A m \in 1..(k - 1) : s[m] # NL
              IN  <<SubSeq(s, 1, i)>> \o splitlines(SubSeq(s, i + 1, Len(s)))
         ELSE <<s>>

RECURSIVE Flatten(_)
Flatten(ls) == IF ls = <<>> THEN <<>> ELSE Head(ls) \o Flatten(Tail(ls))

\* all character sequences over alphabet A of length at most n
RECURSIVE StringsUpTo(_, _)
StringsUpTo(A, n) ==
    IF n = 0 THEN {<<>>}
    ELSE LET S == StringsUpTo(A, n - 1)
         IN  S \cup {Append(s, c) : s \in {t \in S : Len(t) = n - 1}, c \in A}

-----------------------------------------------------------------------------
(* Literals *)

HostPrefix == <<"H", "o", "s", "t", " ">>
HostNameLine == <<TAB, "H", "o", "s", "t", "N", "a", "m", "e", " ", "g", "i", "t", "h", "u", "b", ".", "c", "o", "m", NL>>
UserLine == <<TAB, "U", "s", "e", "r", " ", "g", "i", "t", NL>>
IdentityFilePrefix == <<TAB, "I", "d", "e", "n", "t", "i", "t", "y", "F", "i", "l", "e", " ">>
DotPub == <<".", "p", "u", "b">>
DotGit == <<".", "g", "i", "t">>
GitAt == <<"g", "i", "t", "@">>
SshDir == <<"~", "/", ".", "s", "s", "h", "/">>

\* aliases the user types
AliasW == <<"w">>
AliasW2 == <<"w", "2">>
AliasX == <<"x">>
Aliases == {AliasW, AliasW2, AliasX}

Usernames == {"u1", "u2"}

EmailA == <<"a", "@", "b", ".", "c">>
EmailB == <<"b", "@", "b", ".", "c">>
EmailNoDot == <<"a", "@", "b">>
EmailTwoAt == <<"a", "@", "b", ".", "c", "@", "d">>
Emails == {EmailA, EmailB, EmailNoDot}

\* answers to the SSH key prompts: an existing key file, a path that is not
\* a .pub file, a .pub path that does not exist, or no key (one is generated,
\* and the external commands succeed or one of them fails)
KeyPub == <<"/", "k", ".", "p", "u", "b">>
KeyPriv == <<"/", "k">>
KeyAnswers ==
    { [has |-> "y", path |-> KeyPub,  exists |-> TRUE,  extOk |-> TRUE],
      [has |-> "y", path |-> KeyPriv, exists |-> TRUE,  extOk |-> TRUE],
      [has |-> "y", path |-> KeyPub,  exists |-> FALSE, extOk |-> TRUE],
      [has |-> "n", path |-> <<>>,    exists |-> FALSE, extOk |-> TRUE],
      [has |-> "n", path |-> <<>>,    exists |-> FALSE, extOk |-> FALSE] }

\* what ~/.ssh/config holds before the tool is first used: no file, or host
\* entries of the user's own
ForeignGh == <<"H", "o", "s", "t", " ", "g", "h", NL, TAB, "U", "s", "e", "r", " ", "m", "e", NL>>
ForeignWz == <<"H", "o", "s", "t", " ", "w", "z", NL, TAB, "U", "s", "e", "r", " ", "m", "e">>
InitialSsh ==
    { [exists |-> FALSE, text |-> <<>>],
      [exists |-> TRUE,  text |-> ForeignGh],
      [exists |-> TRUE,  text |-> ForeignWz] }

-----------------------------------------------------------------------------
(* The registry: a JSON object, i.e. an insertion-ordered mapping *)

HasKey(cfg, alias) == \E i \in 1..Len(cfg) : cfg[i].alias = alias

\* configs[alias] = entry
DictSet(cfg, alias, entry) ==
    IF HasKey(cfg, alias)
    THEN [i \in 1..Len(cfg) |-> IF cfg[i].alias = alias THEN entry ELSE cfg[i]]
    ELSE Append(cfg, entry)

\* del configs[alias]
DictDel(cfg, alias) == SelectSeq(cfg, LAMBDA e : e.alias # alias)

DictGet(cfg, alias) == cfg[CHOOSE i \in 1..Len(cfg) : cfg[i].alias = alias]

\* GitAccountManager._ensure_config_directory followed by get_configs: a
\* missing file is created holding {}
LoadConfigs(exists, cfg) == IF exists THEN cfg ELSE <<>>

\* the username check sees no stored username
get_usernames_none(cfg) == {}

get_usernames(cfg) == {cfg[i].username : i \in 1..Len(cfg)}

\* the email check sees no stored email
get_emails_none(cfg) == {}

get_emails(cfg) == {cfg[i].email : i \in 1..Len(cfg)}

get_aliases(cfg) == {cfg[i].alias : i \in 1..Len(cfg)}

NoAt(s, lo, hi) == \A m \in lo..hi : s[m] # "@"

\* re.match(r"[^@]+@[^@]+\.[^@]+", email): the pattern matches a prefix of
\* email; i, j, k are the ends of the three [^@]+ runs
validate_email(email) ==
    \E i \in 1..Len(email) :
        /\ NoAt(email, 1, i)
        /\ i + 1 <= Len(email) /\ email[i + 1] = "@"
        /\ \E j \in (i + 2)..Len(email) :
              /\ NoAt(email, i + 2, j)
              /\ j + 1 <= Len(email) /\ email[j + 1] = "."
              /\ \E k \in (j + 2)..Len(email) : NoAt(email, j + 2, k)

-----------------------------------------------------------------------------
(* The SSH client config *)

\* the text update_ssh_config appends
config_entry(alias, ssh_key_path) ==
    <<NL>> \o HostPrefix \o alias \o <<NL>>
        \o HostNameLine
        \o UserLine
        \o IdentityFilePrefix \o ssh_key_path \o <<NL>>

\* update_ssh_config: open(..., "a") and write
update_ssh_config(text, alias, ssh_key_path) == text \o config_entry(alias, ssh_key_path)

\* the test that starts the suppression of lines
StartsBlock(line, alias) == startswith(strip(line), HostPrefix \o alias)

\* the test that ends it
EndsBlock(line) == startswith(strip(line), HostPrefix) \/ strip(line) = <<>>

\* the loop of remove_ssh_config_entry over the lines still to read, with
\* skip_lines as it stands; the result is what is written
RECURSIVE FilterLines(_, _, _)
FilterLines(lines, alias, skip_lines) ==
    IF lines = <<>> THEN <<>>
    ELSE LET line == Head(lines)
         IN  IF StartsBlock(line, alias)
             THEN FilterLines(Tail(lines), alias, TRUE)
             ELSE LET skip == skip_lines /\ ~EndsBlock(line)
                  IN  (IF skip THEN <<>> ELSE <<line>>)
                          \o FilterLines(Tail(lines), alias, skip)

\* the file is written back as it was read
remove_ssh_config_entry_kept(text, alias) == text

\* remove_ssh_config_entry on an existing file
remove_ssh_config_entry(text, alias) ==
    Flatten(FilterLines(splitlines(text), alias, FALSE))

-----------------------------------------------------------------------------
(* Errors, by the message the code raises them with, and printed results *)

ErrUsernameExists == "Username already exists"
ErrInvalidEmail == "Invalid email format"
ErrEmailExists == "Email already exists"
ErrAliasExists == "Alias already exists"
ErrInvalidKeyPath == "Invalid SSH key path"
ErrCalledProcess == "CalledProcessError"
ErrSshUpdate == "Failed to update SSH config"
ErrAccountNotFound == "Account not found"
ErrParseRemote == "Failed to parse remote URL, not a valid Git repo"
ErrGitCommand == "Git command failed"
ErrGitConfig == "Failed to update Git config"
NoError == "none"

MsgAdded == "Account setup completed successfully!"
MsgRemoved == "Account removed successfully"
MsgNotFound == "Account not found"
MsgAllRemoved == "All saved accounts removed successfully"
MsgSwitched == "Switched to account"
MsgDefaultSet == "Default account set"
MsgNoAccounts == "No saved accounts."
MsgRegistry == "json.dumps(configs, indent=4)"
MsgCurrent == "Current account: "
MsgNothing == ""

\* main's except clause: the error is logged and the process exits with 1
ExitCodeOf(err) == IF err = NoError THEN 0 ELSE 1

NoId == [name |-> "", email |-> <<>>, signingkey |-> <<>>]

\* the external git commands of switch and set-default, in the order they
\* are run; the environment may fail one of them
GitSetName == 1
GitSetEmail == 2
GitSetSigningKey == 3
GitGetUrl == 4
GitRemoteRm == 5
GitRemoteAdd == 6
GitRemoteSetUrl == 7
NoFailure == 0

\* an invocation: the command, what the user gave it, the external git
\* command the environment failed during it, and the key path an add holds
\* between its two writes
Invocation(cmd, alias, username, email) ==
    [cmd |-> cmd, alias |-> alias, username |-> username, email |-> email,
     failAt |-> NoFailure, ssh_key_path |-> <<>>]

-----------------------------------------------------------------------------
(* add *)

\* the path stored for the account: the user's own .pub file, or the key
\* generated for the alias
KeyPathOf(alias, key) ==
    IF key.has = "y" THEN key.path ELSE SshDir \o alias \o DotPub

\* handle_add_account up to "Saving configuration...": the first check that
\* raises, in the order of the prompts
AddError(cfg, username, email, alias, key) ==
    IF username \in get_usernames(cfg) THEN ErrUsernameExists
    ELSE IF ~validate_email(email) THEN ErrInvalidEmail
    ELSE IF email \in get_emails(cfg) THEN ErrEmailExists
    ELSE IF alias \in get_aliases(cfg) THEN ErrAliasExists
    ELSE IF key.has = "y" /\ (~key.exists \/ ~endswith(key.path, DotPub))
         THEN ErrInvalidKeyPath
    ELSE IF key.has # "y" /\ ~key.extOk THEN ErrCalledProcess
    ELSE NoError

\* the entry handle_add_account stores under configs[alias]
NewEntry(alias, username, email, ssh_key_path) ==
    [alias |-> alias, username |-> username, email |-> email,
     ssh_key_path |-> ssh_key_path]

\* a prompt that handle_add_account never reaches is not answered
NotAsked == <<>>
KeyNotAsked == [has |-> "", path |-> <<>>, exists |-> FALSE, extOk |-> TRUE]

\* the prompts are answered in order, each only if the checks before it
\* passed: the answers a run of handle_add_account can be given
EmailPrompt(cfg, username) ==
    IF username \in get_usernames(cfg) THEN {NotAsked} ELSE Emails

AliasPrompt(cfg, email) ==
    IF email # NotAsked /\ validate_email(email) /\ email \notin get_emails(cfg)
    THEN Aliases ELSE {NotAsked}

KeyPrompt(cfg, alias) ==
    IF alias # NotAsked /\ alias \notin get_aliases(cfg)
    THEN KeyAnswers ELSE {KeyNotAsked}

\* gitaccount --add; sshOk: the append to ~/.ssh/config does not raise IOError
Add(username, email, alias, key, sshOk) ==
    /\ ops < MaxOps /\ pc = "idle"
    /\ LET cfg == LoadConfigs(cfgExists, configs)
           err == AddError(cfg, username, email, alias, key)
           path == KeyPathOf(alias, key)
           saved == err = NoError
           appended == saved /\ sshOk
       IN  /\ ~saved => sshOk
           /\ cfgExists' = TRUE
           /\ configs' = IF saved
                         THEN DictSet(cfg, alias, NewEntry(alias, username, email, path))
                         ELSE cfg
           /\ sshExists' = (sshExists \/ appended)
           /\ ssh' = IF appended THEN update_ssh_config(ssh, alias, path) ELSE ssh
           /\ raised' = IF saved /\ ~sshOk THEN ErrSshUpdate ELSE err
           /\ printed' = IF appended THEN MsgAdded ELSE MsgNothing
           /\ aborted' = (aborted \/ (saved /\ ~sshOk))
    /\ exitCode' = ExitCodeOf(raised')
    /\ op' = Invocation("add", alias, username, email)
    /\ ops' = ops + 1
    /\ UNCHANGED <<origin, localId, globalId, pc>>

-----------------------------------------------------------------------------
(* remove, remove-all *)

\* gitaccount --remove alias; an alias that is not a key of the registry is
\* reported on standard output and the invocation returns normally
Remove(alias) ==
    /\ ops < MaxOps /\ pc = "idle"
    /\ LET cfg == LoadConfigs(cfgExists, configs)
           found == HasKey(cfg, alias)
       IN  /\ cfgExists' = TRUE
           /\ configs' = IF found THEN DictDel(cfg, alias) ELSE cfg
           /\ ssh' = IF found /\ sshExists
                     THEN remove_ssh_config_entry(ssh, alias)
                     ELSE ssh
           /\ printed' = IF found THEN MsgRemoved ELSE MsgNotFound
    /\ raised' = NoError
    /\ exitCode' = ExitCodeOf(raised')
    /\ op' = Invocation("remove", alias, "", <<>>)
    /\ ops' = ops + 1
    /\ UNCHANGED <<sshExists, origin, localId, globalId, aborted, pc>>

\* _ensure_config_directory is called after the unlinks
RemoveAll_recreating ==
    /\ ops < MaxOps /\ pc = "idle"
    /\ cfgExists' = TRUE
    /\ configs' = <<>>
    /\ sshExists' = FALSE
    /\ ssh' = <<>>
    /\ raised' = NoError
    /\ printed' = MsgAllRemoved
    /\ exitCode' = ExitCodeOf(raised')
    /\ op' = Invocation("remove-all", <<>>, "", <<>>)
    /\ ops' = ops + 1
    /\ UNCHANGED <<origin, localId, globalId, aborted, pc>>

\* gitaccount --remove-all: both files are unlinked; the registry file is
\* not recreated (manager._ensure_config_directory is named, not called)
RemoveAll ==
    /\ ops < MaxOps /\ pc = "idle"
    /\ cfgExists' = FALSE
    /\ configs' = <<>>
    /\ sshExists' = FALSE
    /\ ssh' = <<>>
    /\ raised' = NoError
    /\ printed' = MsgAllRemoved
    /\ exitCode' = ExitCodeOf(raised')
    /\ op' = Invocation("remove-all", <<>>, "", <<>>)
    /\ ops' = ops + 1
    /\ UNCHANGED <<origin, localId, globalId, aborted, pc>>

\* gitaccount --list
List ==
    /\ ops < MaxOps /\ pc = "idle"
    /\ LET cfg == LoadConfigs(cfgExists, configs)
       IN  /\ cfgExists' = TRUE
           /\ configs' = cfg
           /\ printed' = IF cfg = <<>> THEN MsgNoAccounts ELSE MsgRegistry
    /\ raised' = NoError
    /\ exitCode' = ExitCodeOf(raised')
    /\ op' = Invocation("list", <<>>, "", <<>>)
    /\ ops' = ops + 1
    /\ UNCHANGED <<sshExists, ssh, origin, localId, globalId, aborted, pc>>

\* git config --get user.name: the local setting, else the global one
CurrentUsername(loc, glob) == IF loc.name # "" THEN loc.name ELSE glob.name

\* gitaccount --current: the git command is run without check=True, and
\* whatever it printed is shown
Current ==
    /\ ops < MaxOps /\ pc = "idle"
    /\ cfgExists' = TRUE
    /\ configs' = LoadConfigs(cfgExists, configs)
    /\ printed' = MsgCurrent \o CurrentUsername(localId, globalId)
    /\ raised' = NoError
    /\ exitCode' = ExitCodeOf(raised')
    /\ op' = Invocation("current", <<>>, "", <<>>)
    /\ ops' = ops + 1
    /\ UNCHANGED <<sshExists, ssh, origin, localId, globalId, aborted, pc>>

-----------------------------------------------------------------------------
(* The tool used over time: any sequence of add, remove, remove-all, list
   and current *)

Init ==
    /\ cfgExists = FALSE
    /\ configs = <<>>
    /\ \E f \in InitialSsh : sshExists = f.exists /\ ssh = f.text
    /\ origin = <<>>
    /\ localId = NoId
    /\ globalId = NoId
    /\ op = Invocation("", <<>>, "", <<>>)
    /\ raised = NoError
    /\ printed = MsgNothing
    /\ exitCode = 0
    /\ aborted = FALSE
    /\ pc = "idle"
    /\ ops = 0

\* one run of gitaccount --add, with the answers typed at its prompts
AddAccount ==
    LET cfg == LoadConfigs(cfgExists, configs)
    IN  \E username \in Usernames :
          \E email \in EmailPrompt(cfg, username) :
            \E alias \in AliasPrompt(cfg, email) :
              \E key \in KeyPrompt(cfg, alias), sshOk \in BOOLEAN :
                Add(username, email, alias, key, sshOk)

Next ==
    \/ AddAccount
    \/ \E alias \in Aliases : Remove(alias)
    \/ RemoveAll
    \/ List
    \/ Current

Spec == Init /\ [][Next]_vars

-----------------------------------------------------------------------------
(* add, one write at a time: pc is "saved" between save_config and
   update_ssh_config *)

\* update_ssh_config is called where save_config is
AddSave_appendFirst(username, email, alias, key) ==
    /\ ops < MaxOps /\ pc = "idle"
    /\ LET cfg == LoadConfigs(cfgExists, configs)
           err == AddError(cfg, username, email, alias, key)
           path == KeyPathOf(alias, key)
           saved == err = NoError
       IN  /\ cfgExists' = TRUE
           /\ configs' = cfg
           /\ sshExists' = (sshExists \/ saved)
           /\ ssh' = IF saved THEN update_ssh_config(ssh, alias, path) ELSE ssh
           /\ raised' = err
           /\ pc' = IF saved THEN "saved" ELSE "idle"
           /\ op' = [Invocation("add", alias, username, email)
                        EXCEPT !.ssh_key_path = IF saved THEN path ELSE <<>>]
    /\ printed' = MsgNothing
    /\ exitCode' = ExitCodeOf(raised')
    /\ ops' = ops + 1
    /\ UNCHANGED <<origin, localId, globalId, aborted>>

\* handle_add_account up to and including save_config: a check that raises
\* ends the invocation, otherwise the entry is written to the registry and
\* the handler goes on to the SSH append
AddSave(username, email, alias, key) ==
    /\ ops < MaxOps /\ pc = "idle"
    /\ LET cfg == LoadConfigs(cfgExists, configs)
           err == AddError(cfg, username, email, alias, key)
           path == KeyPathOf(alias, key)
           saved == err = NoError
       IN  /\ cfgExists' = TRUE
           /\ configs' = IF saved
                         THEN DictSet(cfg, alias, NewEntry(alias, username, email, path))
                         ELSE cfg
           /\ raised' = err
           /\ pc' = IF saved THEN "saved" ELSE "idle"
           /\ op' = [Invocation("add", alias, username, email)
                        EXCEPT !.ssh_key_path = IF saved THEN path ELSE <<>>]
    /\ printed' = MsgNothing
    /\ exitCode' = ExitCodeOf(raised')
    /\ ops' = ops + 1
    /\ UNCHANGED <<sshExists, ssh, origin, localId, globalId, aborted>>

\* the rest of handle_add_account: update_ssh_config and the closing message;
\* sshOk: the append to ~/.ssh/config does not raise IOError
AddAppend(sshOk) ==
    /\ pc = "saved"
    /\ sshExists' = (sshExists \/ sshOk)
    /\ ssh' = IF sshOk THEN update_ssh_config(ssh, op.alias, op.ssh_key_path) ELSE ssh
    /\ raised' = IF sshOk THEN NoError ELSE ErrSshUpdate
    /\ printed' = IF sshOk THEN MsgAdded ELSE MsgNothing
    /\ aborted' = (aborted \/ ~sshOk)
    /\ exitCode' = ExitCodeOf(raised')
    /\ pc' = "idle"
    /\ UNCHANGED <<cfgExists, configs, origin, localId, globalId, op, ops>>

\* a run of gitaccount --add up to its registry write
AddUpToSave ==
    LET cfg == LoadConfigs(cfgExists, configs)
    IN  \E username \in Usernames :
          \E email \in EmailPrompt(cfg, username) :
            \E alias \in AliasPrompt(cfg, email) :
              \E key \in KeyPrompt(cfg, alias) :
                AddSave(username, email, alias, key)

NextAddSteps ==
    \/ AddUpToSave
    \/ \E sshOk \in BOOLEAN : AddAppend(sshOk)
    \/ \E alias \in Aliases : Remove(alias)
    \/ RemoveAll

SpecAddSteps == Init /\ [][NextAddSteps]_vars

-----------------------------------------------------------------------------
(* One add on an empty registry, for every email a user can type *)

EmailChars == {"a", "@", "."}

EmailStrings == StringsUpTo(EmailChars, MaxEmailLen) \cup {EmailTwoAt}

AddWithEmail ==
    /\ ops = 0
    /\ \E email \in EmailStrings, alias \in {AliasW, NotAsked} :
          /\ alias \in AliasPrompt(<<>>, email)
          /\ \E key \in KeyPrompt(<<>>, alias) : Add("u1", email, alias, key, TRUE)

SpecEmail == Init /\ [][AddWithEmail]_vars

-----------------------------------------------------------------------------
(* switch, set-default *)

\* the three git config commands of update_git_config, up to the one that
\* fails (check=True raises CalledProcessError, nothing is rolled back)
SetIdentity(id, entry, failAt) ==
    [name       |-> IF failAt = GitSetName THEN id.name ELSE entry.username,
     email      |-> IF failAt \in {GitSetName, GitSetEmail} THEN id.email ELSE entry.email,
     signingkey |-> IF failAt \in {GitSetName, GitSetEmail, GitSetSigningKey}
                    THEN id.signingkey ELSE entry.ssh_key_path]

\* the alias is looked up without the membership test
GitConfigError_unchecked(cfg, alias, failAt) ==
    IF failAt \in {GitSetName, GitSetEmail, GitSetSigningKey} THEN ErrGitConfig
    ELSE NoError

\* update_git_config: the error it raises
GitConfigError(cfg, alias, failAt) ==
    IF ~HasKey(cfg, alias) THEN ErrAccountNotFound
    ELSE IF failAt \in {GitSetName, GitSetEmail, GitSetSigningKey} THEN ErrGitConfig
    ELSE NoError

\* the owner may hold colons: [^/]+ in place of [^/:]+
SlashAfter_colons(url, i) ==
    {j \in (i + 2)..Len(url) :
        /\ url[j] = "/"
        /\ \A m \in (i + 1)..(j - 1) : url[m] # "/"}

\* re.search(r"[:/]([^/:]+)/([^/]+)\.git$", url) tried at position i: the
\* separator, the owner up to the slash at j, the repository up to ".git"
\* at the end of url
SlashAfter(url, i) ==
    {j \in (i + 2)..Len(url) :
        /\ url[j] = "/"
        /\ \A m \in (i + 1)..(j - 1) : url[m] \notin {"/", ":"}}

MatchesAt(url, i) ==
    /\ url[i] \in {":", "/"}
    /\ endswith(url, DotGit)
    /\ \E j \in SlashAfter(url, i) :
          /\ j + 1 <= Len(url) - Len(DotGit)
          /\ \A m \in (j + 1)..(Len(url) - Len(DotGit)) : url[m] # "/"

\* the match object of the search (the leftmost match), or none
remote_search(url) ==
    IF \E i \in 1..Len(url) : MatchesAt(url, i)
    THEN LET i == CHOOSE k \in 1..Len(url) :
                      MatchesAt(url, k) /\ \A m \in 1..(k - 1) : ~MatchesAt(url, m)
             j == CHOOSE k \in SlashAfter(url, i) : TRUE
         IN  [matched |-> TRUE,
              username |-> SubSeq(url, i + 1, j - 1),
              repo |-> SubSeq(url, j + 1, Len(url) - Len(DotGit))]
    ELSE [matched |-> FALSE, username |-> <<>>, repo |-> <<>>]

\* f"git@{alias}:{username}/{repo}.git"
new_origin_url(alias, username, repo) ==
    GitAt \o alias \o <<":">> \o username \o <<"/">> \o repo \o DotGit

\* update_git_remote_origin: the error it raises; a repository with no
\* origin remote makes git config --get exit with 1
RemoteError(url, failAt) ==
    IF url = <<>> \/ failAt = GitGetUrl THEN ErrGitCommand
    ELSE IF ~remote_search(strip(url)).matched THEN ErrParseRemote
    ELSE IF failAt \in {GitRemoteRm, GitRemoteAdd, GitRemoteSetUrl} THEN ErrGitCommand
    ELSE NoError

\* update_git_remote_origin: the origin remote it leaves
RemoteAfter(url, alias, failAt) ==
    LET m == remote_search(strip(url))
    IN  IF url = <<>> \/ failAt \in {GitGetUrl, GitRemoteRm} \/ ~m.matched THEN url
        ELSE IF failAt = GitRemoteAdd THEN <<>>
        ELSE new_origin_url(alias, m.username, m.repo)

\* gitaccount --switch alias
Switch(alias, failAt) ==
    /\ ops < MaxSwitchOps /\ pc = "idle"
    /\ LET cfg == LoadConfigs(cfgExists, configs)
           err1 == GitConfigError(cfg, alias, failAt)
           err == IF err1 # NoError THEN err1 ELSE RemoteError(origin, failAt)
       IN  /\ cfgExists' = TRUE
           /\ configs' = cfg
           /\ localId' = IF HasKey(cfg, alias)
                         THEN SetIdentity(localId, DictGet(cfg, alias), failAt)
                         ELSE localId
           /\ origin' = IF err1 = NoError THEN RemoteAfter(origin, alias, failAt)
                        ELSE origin
           /\ raised' = err
           /\ printed' = IF err = NoError THEN MsgSwitched ELSE MsgNothing
    /\ exitCode' = ExitCodeOf(raised')
    /\ op' = [Invocation("switch", alias, "", <<>>) EXCEPT !.failAt = failAt]
    /\ ops' = ops + 1
    /\ UNCHANGED <<sshExists, ssh, globalId, aborted, pc>>

\* gitaccount --set-default alias
SetDefault(alias, failAt) ==
    /\ ops < MaxSwitchOps /\ pc = "idle"
    /\ LET cfg == LoadConfigs(cfgExists, configs)
           err == GitConfigError(cfg, alias, failAt)
       IN  /\ cfgExists' = TRUE
           /\ configs' = cfg
           /\ globalId' = IF HasKey(cfg, alias)
                          THEN SetIdentity(globalId, DictGet(cfg, alias), failAt)
                          ELSE globalId
           /\ raised' = err
           /\ printed' = IF err = NoError THEN MsgDefaultSet ELSE MsgNothing
    /\ exitCode' = ExitCodeOf(raised')
    /\ op' = [Invocation("set-default", alias, "", <<>>) EXCEPT !.failAt = failAt]
    /\ ops' = ops + 1
    /\ UNCHANGED <<sshExists, ssh, origin, localId, aborted, pc>>

-----------------------------------------------------------------------------
(* switch and set-default in a repository, with accounts already added *)

UrlChars == {":", "/", "a"}

UrlHttps == <<"h", "t", "t", "p", "s", ":", "/", "/", "g", "i", "t", "h", "u", "b", ".", "c", "o", "m", "/", "a", "c", "m", "e", "/", "w", "i", "d", "g", "e", "t", "s", ".", "g", "i", "t">>
UrlScp == <<"g", "i", "t", "@", "g", "i", "t", "h", "u", "b", ".", "c", "o", "m", ":", "a", "c", "m", "e", "/", "w", "i", "d", "g", "e", "t", "s", ".", "g", "i", "t">>
UrlAliased == <<"g", "i", "t", "@", "x", ":", "a", "c", "m", "e", "/", "w", "i", "d", "g", "e", "t", "s", ".", "g", "i", "t">>
UrlNoGit == <<"h", "t", "t", "p", "s", ":", "/", "/", "g", "i", "t", "h", "u", "b", ".", "c", "o", "m", "/", "a", "c", "m", "e", "/", "w", "i", "d", "g", "e", "t", "s">>

UrlTails == {<<>>, DotGit, <<"/", "r">>, <<"/", "r">> \o DotGit}

\* what remote.origin.url can hold: no origin remote (<<>>), the usual
\* forms, and every short text over the separators
RemoteUrls ==
    {p \o t : p \in StringsUpTo(UrlChars, MaxUrlLen), t \in UrlTails}
        \cup {UrlHttps, UrlScp, UrlAliased, UrlNoGit}

\* a registry left by two adds
RegistryWX ==
    <<NewEntry(AliasW, "u1", EmailA, KeyPathOf(AliasW, [has |-> "n"])),
      NewEntry(AliasX, "u2", EmailB, KeyPub)>>

\* the failures the environment can inject: one of the commands that run
SetDefaultFailures(cfg, alias) ==
    IF HasKey(cfg, alias)
    THEN {NoFailure, GitSetName, GitSetEmail, GitSetSigningKey}
    ELSE {NoFailure}

SwitchFailures(cfg, alias, url) ==
    SetDefaultFailures(cfg, alias) \cup
        IF ~HasKey(cfg, alias) \/ url = <<>> THEN {}
        ELSE IF ~remote_search(strip(url)).matched THEN {GitGetUrl}
        ELSE {GitGetUrl, GitRemoteRm, GitRemoteAdd, GitRemoteSetUrl}

InitSwitch ==
    /\ cfgExists = TRUE
    /\ configs = RegistryWX
    /\ sshExists = TRUE
    /\ ssh = update_ssh_config(update_ssh_config(<<>>, AliasW, RegistryWX[1].ssh_key_path),
                               AliasX, RegistryWX[2].ssh_key_path)
    /\ origin \in RemoteUrls
    /\ localId = NoId
    /\ globalId = NoId
    /\ op = Invocation("", <<>>, "", <<>>)
    /\ raised = NoError
    /\ printed = MsgNothing
    /\ exitCode = 0
    /\ aborted = FALSE
    /\ pc = "idle"
    /\ ops = 0

NextSwitch ==
    \/ \E alias \in Aliases :
          \E failAt \in SwitchFailures(LoadConfigs(cfgExists, configs), alias, origin) :
              Switch(alias, failAt)
    \/ \E alias \in Aliases :
          \E failAt \in SetDefaultFailures(LoadConfigs(cfgExists, configs), alias) :
              SetDefault(alias, failAt)

SpecSwitch == InitSwitch /\ [][NextSwitch]_vars

-----------------------------------------------------------------------------
(* Vocabulary of the properties, stated on the files' contents *)

\* one invocation of the given command has just run
Ran(cmd) == op'.cmd = cmd /\ ops' = ops + 1

RegistryUsernames(cfg) == {cfg[i].username : i \in 1..Len(cfg)}
RegistryEmails(cfg) == {cfg[i].email : i \in 1..Len(cfg)}
RegistryAliases(cfg) == {cfg[i].alias : i \in 1..Len(cfg)}
RegistryEntries(cfg) == {cfg[i] : i \in 1..Len(cfg)}

\* s up to its first whitespace character
RECURSIVE FirstWord(_)
FirstWord(s) ==
    IF s = <<>> \/ IsSpace(Head(s)) THEN <<>> ELSE <<Head(s)>> \o FirstWord(Tail(s))

IsHostLine(line) == startswith(strip(line), HostPrefix)

\* the alias a Host line names: the token after the keyword
HostToken(line) ==
    LET t == strip(line) IN FirstWord(lstrip(SubSeq(t, Len(HostPrefix) + 1, Len(t))))

\* the lines of the blocks (a Host line and what follows it up to the next
\* Host line or blank line) whose alias is in S (own) or is not in S (~own)
RECURSIVE BlockLines(_, _, _, _)
BlockLines(lines, S, own, inside) ==
    IF lines = <<>> THEN <<>>
    ELSE LET line == Head(lines)
             in == IF IsHostLine(line) THEN (HostToken(line) \in S) = own
                   ELSE IF strip(line) = <<>> THEN FALSE
                   ELSE inside
         IN  (IF in THEN <<line>> ELSE <<>>) \o BlockLines(Tail(lines), S, own, in)

\* the text of the blocks of alias a, in file order
BlockText(text, a) == Flatten(BlockLines(splitlines(text), {a}, TRUE, FALSE))

\* line without its line ending
Chomp(line) ==
    IF line # <<>> /\ line[Len(line)] = NL THEN SubSeq(line, 1, Len(line) - 1) ELSE line

\* the lines of the blocks of every alias outside S, in file order
ForeignLines(text, S) ==
    LET ls == BlockLines(splitlines(text), S, FALSE, FALSE)
    IN  [i \in 1..Len(ls) |-> Chomp(ls[i])]

\* how many Host lines name alias a
HostLineCount(text, a) ==
    LET lines == splitlines(text)
    IN  Cardinality({i \in 1..Len(lines) : IsHostLine(lines[i]) /\ HostToken(lines[i]) = a})

IsStrictPrefix(a, b) == a # b /\ startswith(b, a)

-----------------------------------------------------------------------------
(* Properties of the registry and the SSH config under add, remove, remove-all *)

\* C1: in every reachable registry, no two distinct profiles share a
\* username, an email or an alias.
UniqueProfiles ==
    \A i, j \in 1..Len(configs) :
        i # j => /\ configs[i].username # configs[j].username
                 /\ configs[i].email # configs[j].email
                 /\ configs[i].alias # configs[j].alias

\* two profiles are stored, the second by the add that has just run
TwoProfilesStored == Len(configs) = 2 /\ op.cmd = "add" /\ raised = NoError

\* C2: an add that gives the username, email or alias of a stored profile
\* ends with the duplicate-username, duplicate-email or duplicate-alias error
\* respectively, and changes neither the registry nor the SSH config.
DuplicateAddRejected ==
    [][Ran("add") =>
        LET rejected(err) == /\ raised' = err
                             /\ configs' = configs /\ cfgExists' = cfgExists
                             /\ ssh' = ssh /\ sshExists' = sshExists
        IN  /\ op'.username \in RegistryUsernames(configs) => rejected(ErrUsernameExists)
            /\ op'.email \in RegistryEmails(configs) => rejected(ErrEmailExists)
            /\ op'.alias \in RegistryAliases(configs) => rejected(ErrAliasExists)]_vars

\* an add was rejected for its alias, next to a stored profile
DuplicateAliasSeen ==
    op.cmd = "add" /\ raised = ErrAliasExists /\ op.alias \in RegistryAliases(configs)

\* C3: when the SSH config holds the blocks of two aliases, one a strict
\* prefix of the other, removing either leaves the block of the other byte
\* for byte as it was.
RemoveKeepsPrefixRelatedBlock ==
    [][(Ran("remove") /\ printed' = MsgRemoved) =>
        \A b \in Aliases :
            (/\ IsStrictPrefix(op'.alias, b) \/ IsStrictPrefix(b, op'.alias)
             /\ BlockText(ssh, op'.alias) # <<>>
             /\ BlockText(ssh, b) # <<>>)
                => BlockText(ssh', b) = BlockText(ssh, b)]_vars

\* C4: the append of an add, undone at once by the removal of the same alias,
\* gives back the SSH config as it was before the add.
AppendThenRemoveRestores ==
    [][(Ran("add") /\ printed' = MsgAdded) =>
        remove_ssh_config_entry(ssh', op'.alias) = ssh]_vars

\* C5: when every invocation so far ran to completion, each alias of the
\* registry has exactly one Host block and no other alias the tool handles
\* has any.
BlocksMatchRegistry ==
    ~aborted =>
        \A a \in Aliases :
            HostLineCount(ssh, a) = IF a \in RegistryAliases(configs) THEN 1 ELSE 0

\* C6: no invocation removes, alters or reorders the blocks of aliases that
\* are outside the registry before and after it.
ForeignBlocksKept ==
    [][LET own == RegistryAliases(configs) \cup RegistryAliases(configs')
       IN  ForeignLines(ssh', own) = ForeignLines(ssh, own)]_vars

\* C7: removing an alias that is not in the registry ends with the
\* account-not-found error and changes neither the registry nor the SSH
\* config.
RemoveAbsentFails ==
    [][(Ran("remove") /\ op'.alias \notin RegistryAliases(configs)) =>
        /\ raised' = ErrAccountNotFound
        /\ configs' = configs
        /\ ssh' = ssh /\ sshExists' = sshExists]_vars

\* C8: removing an alias that is in the registry succeeds, leaves the
\* registry without that alias and with every other entry as it was, in the
\* same order, and leaves no Host line naming the alias in the SSH config.
RemovePresentSucceeds ==
    [][(Ran("remove") /\ op'.alias \in RegistryAliases(configs)) =>
        /\ raised' = NoError /\ exitCode' = 0
        /\ op'.alias \notin RegistryAliases(configs')
        /\ Len(configs') = Len(configs) - 1
        /\ RegistryEntries(configs') \subseteq RegistryEntries(configs)
        /\ \A i, j \in 1..Len(configs') : i < j =>
              \E k, m \in 1..Len(configs) :
                  k < m /\ configs[k] = configs'[i] /\ configs[m] = configs'[j]
        /\ HostLineCount(ssh', op'.alias) = 0]_vars

\* an alias was removed from a registry of two, with its block in a file
\* that still holds text
RemovedOneOfTwo ==
    /\ op.cmd = "remove" /\ printed = MsgRemoved
    /\ Len(configs) = 1 /\ sshExists /\ ssh # <<>>

-----------------------------------------------------------------------------
(* Properties of the email check and of the remote rewrite *)

CountOf(s, c) == Cardinality({i \in 1..Len(s) : s[i] = c})

\* exactly one @, text before it, and after it a dot with text on both sides
WellFormedEmail(s) ==
    /\ CountOf(s, "@") = 1
    /\ \E p \in 2..Len(s) :
          /\ s[p] = "@"
          /\ \E q \in (p + 2)..(Len(s) - 1) : s[q] = "."

\* C9: the email check of add accepts exactly the emails with one @, text
\* before it and, after it, a dot with text on both sides; an email with a
\* second @ is refused.
ValidateEmailExact ==
    op.cmd = "add" => ((raised # ErrInvalidEmail) <=> WellFormedEmail(op.email))

\* url ends in [:/]<owner>/<repo>.git, the separator at p and the slash at q
OwnerRepoAt(url, p, q) ==
    /\ url[p] \in {":", "/"} /\ url[q] = "/"
    /\ p + 1 < q /\ q + 1 <= Len(url) - Len(DotGit)
    /\ \A m \in (p + 1)..(q - 1) : url[m] \notin {":", "/"}
    /\ \A m \in (q + 1)..(Len(url) - Len(DotGit)) : url[m] # "/"
    /\ SubSeq(url, Len(url) - Len(DotGit) + 1, Len(url)) = DotGit

\* a switch got as far as the remote rewrite, which read the origin URL
RewriteRan ==
    /\ Ran("switch")
    /\ op'.alias \in RegistryAliases(configs)
    /\ op'.failAt \notin {GitSetName, GitSetEmail, GitSetSigningKey, GitGetUrl}
    /\ origin # <<>>

\* C10: for an origin URL ending in [:/]<owner>/<repo>.git the rewrite, its
\* git commands succeeding, leaves origin at git@<alias>:<owner>/<repo>.git;
\* for any other URL it ends with the unparseable-URL error and origin is as
\* it was.
RewriteRemoteOrigin ==
    [][RewriteRan =>
        /\ \A p, q \in 1..Len(origin) :
              (OwnerRepoAt(origin, p, q) /\ op'.failAt = NoFailure) =>
                  /\ raised' = NoError
                  /\ origin' = GitAt \o op'.alias \o <<":">>
                                  \o SubSeq(origin, p + 1, q - 1) \o <<"/">>
                                  \o SubSeq(origin, q + 1, Len(origin))
        /\ (~\E p, q \in 1..Len(origin) : OwnerRepoAt(origin, p, q)) =>
              raised' = ErrParseRemote /\ origin' = origin]_vars

\* a switch to w has rewritten an origin of acme/widgets
OriginRewritten ==
    /\ op.cmd = "switch" /\ op.alias = AliasW /\ raised = NoError
    /\ origin = <<"g", "i", "t", "@", "w", ":", "a", "c", "m", "e", "/", "w", "i", "d", "g", "e", "t", "s", ".", "g", "i", "t">>

-----------------------------------------------------------------------------
(* Properties of switch and set-default on an unknown alias *)

\* C11: switch and set-default with an alias that is not in the registry end
\* with the account-not-found error and exit code 1, having run no external
\* command: the local and global identity settings and the origin remote are
\* as they were.
UnknownAliasRunsNothing ==
    [][((Ran("switch") \/ Ran("set-default"))
            /\ op'.alias \notin RegistryAliases(configs)) =>
        /\ raised' = ErrAccountNotFound /\ exitCode' = 1
        /\ localId' = localId /\ globalId' = globalId
        /\ origin' = origin]_vars

\* a switch to an unknown alias was refused in a repository whose identity
\* and origin an earlier switch had set
UnknownAliasRefused ==
    /\ op.cmd = "switch" /\ op.alias = AliasW2 /\ raised = ErrAccountNotFound
    /\ localId # NoId /\ startswith(origin, GitAt \o AliasW)

-----------------------------------------------------------------------------
(* Properties of remove-all, of the exit code and of the order of add's writes *)

\* the invocation that has just run found the registry empty
LoadedEmpty ==
    /\ op'.cmd = "list" => printed' = MsgNoAccounts /\ configs' = <<>>
    /\ op'.cmd = "remove" => printed' = MsgNotFound /\ configs' = <<>>
    /\ op'.cmd = "add" =>
          /\ raised' \notin {ErrUsernameExists, ErrEmailExists, ErrAliasExists}
          /\ RegistryAliases(configs') \subseteq {op'.alias}

\* C12: remove-all ends with the registry file deleted, not emptied; the
\* invocation after it finds no file, creates it and loads the empty
\* registry.
RemoveAllDeletesRegistryFile ==
    [][/\ Ran("remove-all") => ~cfgExists' /\ configs' = <<>>
       /\ (op.cmd = "remove-all" /\ ops' = ops + 1 /\ op'.cmd # "remove-all") =>
              ~cfgExists /\ cfgExists' /\ LoadedEmpty]_vars

\* remove-all has run second, after an add that had stored an entry (and
\* stopped before its SSH append), and no registry file is left
RegistryFileDeleted ==
    op.cmd = "remove-all" /\ ops = 2 /\ aborted /\ ~cfgExists

\* the invocation that has just run ended in an error: one was raised, or
\* the alias to remove was reported as not found
EndedInError ==
    raised # NoError \/ (op.cmd = "remove" /\ printed = MsgNotFound)

\* C13: an invocation ends with exit code 0 if and only if its operation
\* succeeded; one that ends in an error ends with a non-zero exit code.
ExitCodeReflectsOutcome == (exitCode = 0) <=> ~EndedInError

\* C14: in add the registry write precedes the SSH append: the SSH config
\* never holds a Host block of an alias the registry lacks, between the two
\* writes the registry holds the new entry and the SSH config no block of
\* it, and an add whose append fails leaves the registry with the new entry
\* and no block.
RegistryWriteBeforeAppend ==
    LET stored == /\ HasKey(configs, op.alias)
                  /\ DictGet(configs, op.alias) =
                        NewEntry(op.alias, op.username, op.email, op.ssh_key_path)
                  /\ HostLineCount(ssh, op.alias) = 0
    IN  /\ \A a \in Aliases :
              HostLineCount(ssh, a) > 0 => a \in RegistryAliases(configs)
        /\ pc = "saved" => stored
        /\ (pc = "idle" /\ op.cmd = "add" /\ raised = ErrSshUpdate) => stored

\* the append of a second add has failed: the registry holds both entries
\* and the SSH config the block of the first only
AppendFailedAfterSave ==
    /\ pc = "idle" /\ op.cmd = "add" /\ raised = ErrSshUpdate /\ exitCode = 1
    /\ Len(configs) = 2 /\ configs[2].alias = op.alias
    /\ HostLineCount(ssh, configs[1].alias) = 1
    /\ HostLineCount(ssh, op.alias) = 0

====
